---- MODULE Spec2Model ----
(***************************************************************************)
(* Model of scripts/extract_common_compounds_db.py: main() extracts the    *)
(* "Common Compounds" subset of the source SQLite database into a fresh    *)
(* destination database.  One action per statement of main(); the source   *)
(* database is drawn from a bounded family of catalogs and row sets.       *)
(***************************************************************************)
EXTENDS Naturals, Sequences, FiniteSets, TLC

(* ------------------------------ bounds --------------------------------- *)
\* The source differs from the empty, regular database in at most MaxSize
\* places: a row of some table, or a catalog entry that is not a plain
\* table definition with one index.
MaxSize == 2
\* main() is invoked at most MaxRuns times against the unchanged source.
MaxRuns == 2

(* --------------------------- program constants ------------------------- *)
TARGET_DATABASE_NAME == "Common Compounds"

NULL == "NULL"

\* The fixed list of tables whose schema is replicated, in the code's order.
tables_to_copy ==
    << "spectra_databases",
       "common_compound_categories",
       "solar_spectra",
       "compounds_absorptions_backup",
       "compounds_absorptions",
       "compound_absorption_normalized_status",
       "compounds_emissions_backup",
       "compounds_emissions",
       "compound_emission_normalized_status",
       "compounds" >>

\* The four linked tables copied by the loop, in the code's order.
linked_tables ==
    << "compounds_absorptions",
       "compounds_emissions",
       "compound_absorption_normalized_status",
       "compound_emission_normalized_status" >>

Range(s) == {s[k] : k \in 1..Len(s)}

Tables == Range(tables_to_copy)

\* The six tables whose rows carry a compound_id.
CompoundKeyed ==
    Range(linked_tables) \cup {"compounds_absorptions_backup", "compounds_emissions_backup"}

(* ----------------------- the source database --------------------------- *)
\* Rows are tuples of the columns the statements read:
\*   compounds                   <<id, database_name, database_id, category_id>>
\*   spectra_databases           <<id, name>>
\*   common_compound_categories  <<id>>
\*   solar_spectra               <<id>>
\*   compound-keyed tables       <<id, compound_id>>
CompoundIds == {"c1", "c2"}
DatabaseNames == {TARGET_DATABASE_NAME, "Other"}
DatabaseIds == {"d1", "d2"}
CategoryIds == {"k1"}

RowsOf(t) ==
    CASE t = "compounds" ->
           {<<c, n, d, k>> : c \in CompoundIds, n \in DatabaseNames,
                             d \in {NULL, "d1"}, k \in {NULL} \cup CategoryIds}
      [] t = "spectra_databases" -> {<<d, n>> : d \in DatabaseIds, n \in DatabaseNames}
      [] t = "common_compound_categories" -> {<<k>> : k \in CategoryIds}
      [] t = "solar_spectra" -> {<<"s1">>}
      [] OTHER -> {<<"r1", "c1">>, <<"r2", "c2">>}

\* A catalog entry of the source (sqlite_master): the table and its index are
\* defined ("ok"), the table is not in the catalog ("absent"), or the table's
\* or the index's definition does not apply to the destination connection
\* ("badtable", "badindex": sqlite3 raises OperationalError, as for a
\* definition naming a collation the connection does not have).
Entries == {"ok", "absent", "badtable", "badindex"}

\* The places where a source can differ from the empty regular database.
Items ==
    UNION {{<<t>> \o r : r \in RowsOf(t)} : t \in Tables}
      \cup {<<"catalog", t, e>> : t \in Tables, e \in Entries \ {"ok"}}

\* Primary keys are unique, a table has one catalog entry, and a table that
\* is not in the catalog has no rows.
Fits(S, x) ==
    /\ x \notin S
    /\ \A y \in S :
          /\ ~(x[1] = y[1] /\ x[2] = y[2])
          /\ ~(x[1] = "catalog" /\ x[3] = "absent" /\ y[1] = x[2])
          /\ ~(y[1] = "catalog" /\ y[3] = "absent" /\ x[1] = y[2])

\* The sources of at most k places.
RECURSIVE Sources(_)
Sources(k) ==
    IF k = 0 THEN {{}}
    ELSE LET P == Sources(k - 1)
         IN  P \cup UNION {{p \cup {x} : x \in {y \in Items : Fits(p, y)}} : p \in P}

CatalogOf(S) ==
    [t \in Tables |->
        IF \E x \in S : x[1] = "catalog" /\ x[2] = t
        THEN (CHOOSE x \in S : x[1] = "catalog" /\ x[2] = t)[3]
        ELSE "ok"]

ContentOf(S) == [t \in Tables |-> {Tail(x) : x \in {y \in S : y[1] = t}}]

NoRows == [t \in Tables |-> {}]

(* -------------------------- destination files -------------------------- *)
\* The file at OUTPUT_DB: whether it exists and its committed content.
NoFile == [exists |-> FALSE, tables |-> {}, indexes |-> {}, rows |-> NoRows]
EmptyFile == [exists |-> TRUE, tables |-> {}, indexes |-> {}, rows |-> NoRows]
\* A database left at the destination path by something else.
StaleFile ==
    [exists |-> TRUE, tables |-> {"compounds", "legacy"}, indexes |-> {"legacy"},
     rows |-> [NoRows EXCEPT !["compounds"] = {<<"c9", "Other", NULL, NULL>>}]]
PriorFiles == {NoFile, EmptyFile, StaleFile}

VARIABLES
    srcExists,     \* os.path.isfile(SOURCE_DB)
    srcCatalog,    \* sqlite_master of the source, per listed table
    srcRows,       \* the rows of the source's tables
    disk,          \* the file at OUTPUT_DB, committed content
    pending,       \* the rows conn_dst sees (committed or not)
    inTxn,         \* conn_dst.in_transaction
    conn_dst,      \* "none" | "open" | "closed"
    conn_src,      \* "none" | "open" | "closed"
    compound_ids,  \* the selected ids
    pc,            \* the statement main() is at
    i,             \* index of the running for-loop
    outcome,       \* how main() ended: "none" | "nosource" | "empty" | "raised" | "ok"
    run,           \* number of invocations so far
    out1,          \* content of the destination after the first successful run
    prior,         \* the file that was at OUTPUT_DB when main() was invoked
    created,       \* tables created by copy_table_schema in this run
    commits,       \* calls of conn_dst.commit() in this run
    summary        \* the three printed counts

vars == <<srcExists, srcCatalog, srcRows, disk, pending, inTxn, conn_dst, conn_src,
          compound_ids, pc, i, outcome, run, out1, prior, created, commits, summary>>

Init ==
    /\ \E S \in Sources(MaxSize) :
          /\ srcCatalog = CatalogOf(S)
          /\ srcRows = ContentOf(S)
          /\ srcExists \in (IF S = {} THEN BOOLEAN ELSE {TRUE})
    /\ disk = NoFile
    /\ pending = NoRows
    /\ inTxn = FALSE
    /\ conn_dst = "none"
    /\ conn_src = "none"
    /\ compound_ids = {}
    /\ pc = "idle"
    /\ i = 1
    /\ outcome = "none"
    /\ run = 0
    /\ out1 = NoFile
    /\ prior = NoFile
    /\ created = {}
    /\ commits = 0
    /\ summary = <<0, 0, 0>>

(* ------------------------- main()'s statements ------------------------- *)
\* The statements of main() in program order; "schema" and "linked" are the
\* two for-loops.
\* Variant: the stale output is removed before the source is looked for.
main_steps_remove_first ==
    << "remove", "check", "connect", "attach", "select", "open_src", "schema",
       "close_src", "spectra_by_name", "spectra_by_id", "categories", "solar",
       "compounds", "linked", "absorptions_backup", "emissions_backup",
       "commit", "detach", "summary", "finally" >>

\* Variant: the linked tables are copied before the compounds.
main_steps_linked_first ==
    << "check", "remove", "connect", "attach", "select", "open_src", "schema",
       "close_src", "spectra_by_name", "spectra_by_id", "categories", "solar",
       "linked", "compounds", "absorptions_backup", "emissions_backup",
       "commit", "detach", "summary", "finally" >>

main_steps ==
    << "check", "remove", "connect", "attach", "select", "open_src", "schema",
       "close_src", "spectra_by_name", "spectra_by_id", "categories", "solar",
       "compounds", "linked", "absorptions_backup", "emissions_backup",
       "commit", "detach", "summary", "finally" >>

StepAfter(p) ==
    LET k == CHOOSE n \in 1..Len(main_steps) : main_steps[n] = p
    IN  main_steps[k + 1]

\* An exception leaves the try block for the finally clause.
Raise ==
    /\ outcome' = "raised"
    /\ pc' = "finally"

\* python scripts/extract_common_compounds_db.py, with whatever file is at
\* OUTPUT_DB: the one the last run left, or another one.
Invoke ==
    /\ pc = "idle"
    /\ run < MaxRuns
    /\ run' = run + 1
    /\ \E f \in PriorFiles \cup {disk} :
          /\ disk' = f
          /\ prior' = f
    /\ pending' = NoRows
    /\ inTxn' = FALSE
    /\ conn_dst' = "none"
    /\ conn_src' = "none"
    /\ compound_ids' = {}
    /\ i' = 1
    /\ outcome' = "none"
    /\ created' = {}
    /\ commits' = 0
    /\ summary' = <<0, 0, 0>>
    /\ pc' = main_steps[1]
    /\ UNCHANGED <<srcExists, srcCatalog, srcRows, out1>>

\* if not os.path.isfile(SOURCE_DB): print(...); return
CheckSource ==
    /\ pc = "check"
    /\ IF srcExists
       THEN /\ pc' = StepAfter("check")
            /\ outcome' = outcome
       ELSE /\ pc' = "idle"
            /\ outcome' = "nosource"
    /\ UNCHANGED <<srcExists, srcCatalog, srcRows, disk, pending, inTxn, conn_dst,
                   conn_src, compound_ids, i, run, out1, prior, created, commits,
                   summary>>

\* if os.path.isfile(OUTPUT_DB): os.remove(OUTPUT_DB)
\* Variant: the existing output is kept.
KeepExisting(d) == d
RemoveExisting(d) == IF d.exists THEN NoFile ELSE d

RemoveStale ==
    /\ pc = "remove"
    /\ disk' = RemoveExisting(disk)
    /\ pc' = StepAfter("remove")
    /\ UNCHANGED <<srcExists, srcCatalog, srcRows, pending, inTxn, conn_dst, conn_src,
                   compound_ids, i, outcome, run, out1, prior, created, commits,
                   summary>>

\* conn_dst = sqlite3.connect(OUTPUT_DB): creates an empty file when there is
\* none, opens the existing one otherwise.
Connect ==
    /\ pc = "connect"
    /\ disk' = IF disk.exists THEN disk ELSE EmptyFile
    /\ pending' = disk'.rows
    /\ conn_dst' = "open"
    /\ pc' = StepAfter("connect")
    /\ UNCHANGED <<srcExists, srcCatalog, srcRows, inTxn, conn_src, compound_ids, i,
                   outcome, run, out1, prior, created, commits, summary>>

\* conn_dst.execute("ATTACH DATABASE ? AS src", (source_abs,))
Attach ==
    /\ pc = "attach"
    /\ pc' = StepAfter("attach")
    /\ UNCHANGED <<srcExists, srcCatalog, srcRows, disk, pending, inTxn, conn_dst,
                   conn_src, compound_ids, i, outcome, run, out1, prior, created,
                   commits, summary>>

\* SELECT id FROM src.compounds WHERE database_name = ?
SelectedIds == {r[1] : r \in {q \in srcRows["compounds"] : q[2] = TARGET_DATABASE_NAME}}

\* if not compound_ids
\* Variant: an empty selection is not noticed.
NeverEmpty(ids) == FALSE
IsEmptySelection(ids) == ids = {}

SelectIds ==
    /\ pc = "select"
    /\ IF srcCatalog["compounds"] = "absent"
       THEN /\ Raise
            /\ compound_ids' = compound_ids
       ELSE /\ compound_ids' = SelectedIds
            /\ IF IsEmptySelection(compound_ids')
               THEN /\ outcome' = "empty"
                    /\ pc' = "finally"
               ELSE /\ outcome' = outcome
                    /\ pc' = StepAfter("select")
    /\ UNCHANGED <<srcExists, srcCatalog, srcRows, disk, pending, inTxn, conn_dst,
                   conn_src, i, run, out1, prior, created, commits, summary>>

\* conn_src = sqlite3.connect(SOURCE_DB)
OpenSrc ==
    /\ pc = "open_src"
    /\ conn_src' = "open"
    /\ i' = 1
    /\ pc' = StepAfter("open_src")
    /\ UNCHANGED <<srcExists, srcCatalog, srcRows, disk, pending, inTxn, conn_dst,
                   compound_ids, outcome, run, out1, prior, created, commits, summary>>

\* copy_table_schema(conn_src, conn_dst, table) on the destination d: the
\* destination it leaves and whether it raised.  A CREATE statement runs
\* outside any transaction (sqlite3 opens one only before INSERT, UPDATE,
\* DELETE and REPLACE), so what it creates is in the file at once.
\* Variant: a table that is not in the source catalog is an error.
copy_table_schema_strict(d, table) ==
    LET e == srcCatalog[table]
        withTable == [d EXCEPT !.tables = @ \cup {table}]
    IN  CASE e = "absent" -> [dst |-> d, raised |-> TRUE]
          [] e = "badtable" \/ table \in d.tables -> [dst |-> d, raised |-> TRUE]
          [] e = "badindex" -> [dst |-> withTable, raised |-> TRUE]
          [] OTHER -> [dst |-> [withTable EXCEPT !.indexes = @ \cup {table}],
                       raised |-> FALSE]

copy_table_schema(d, table) ==
    LET e == srcCatalog[table]
        withTable == [d EXCEPT !.tables = @ \cup {table}]
    IN  CASE e = "absent" -> [dst |-> d, raised |-> FALSE]
          [] e = "badtable" \/ table \in d.tables -> [dst |-> d, raised |-> TRUE]
          [] e = "badindex" -> [dst |-> withTable, raised |-> TRUE]
          [] OTHER -> [dst |-> [withTable EXCEPT !.indexes = @ \cup {table}],
                       raised |-> FALSE]

\* for table in tables_to_copy: copy_table_schema(conn_src, conn_dst, table)
CopySchema ==
    /\ pc = "schema"
    /\ LET r == copy_table_schema(disk, tables_to_copy[i])
       IN  /\ disk' = r.dst
           /\ created' = created \cup (r.dst.tables \ disk.tables)
           /\ IF r.raised
              THEN /\ Raise
                   /\ i' = i
              ELSE /\ outcome' = outcome
                   /\ IF i < Len(tables_to_copy)
                      THEN /\ i' = i + 1
                           /\ pc' = pc
                      ELSE /\ i' = 1
                           /\ pc' = StepAfter("schema")
    /\ UNCHANGED <<srcExists, srcCatalog, srcRows, pending, inTxn, conn_dst, conn_src,
                   compound_ids, run, out1, prior, commits, summary>>

\* conn_src.close()
CloseSrc ==
    /\ pc = "close_src"
    /\ conn_src' = "closed"
    /\ pc' = StepAfter("close_src")
    /\ UNCHANGED <<srcExists, srcCatalog, srcRows, disk, pending, inTxn, conn_dst,
                   compound_ids, i, outcome, run, out1, prior, created, commits,
                   summary>>

(* ------------------------------ data copy ------------------------------ *)
\* conn_dst.execute("INSERT [OR IGNORE] INTO table SELECT ..."), the SELECT
\* yielding rows: the rows conn_dst sees afterwards and whether the statement
\* raised.  It raises when main.table or src.table does not exist, and a
\* strict INSERT raises on a primary key that is already there; OR IGNORE
\* skips such a row.
Keys(rs) == {r[1] : r \in rs}

insert(table, rows, or_ignore) ==
    CASE table \notin disk.tables \/ srcCatalog[table] = "absent" ->
           [rows |-> pending, raised |-> TRUE]
      [] ~or_ignore /\ Keys(rows) \cap Keys(pending[table]) # {} ->
           [rows |-> pending, raised |-> TRUE]
      [] OTHER ->
           [rows |-> [pending EXCEPT ![table] =
                         @ \cup {r \in rows : r[1] \notin Keys(pending[table])}],
            raised |-> FALSE]

\* One INSERT statement of main(): at label, into table, the given rows.
Statement(label, table, rows, or_ignore) ==
    /\ pc = label
    /\ LET r == insert(table, rows, or_ignore)
       IN  /\ pending' = r.rows
           /\ IF r.raised
              THEN /\ Raise
                   /\ inTxn' = inTxn
              ELSE /\ outcome' = outcome
                   /\ pc' = StepAfter(label)
                   /\ inTxn' = TRUE
    /\ UNCHANGED <<srcExists, srcCatalog, srcRows, disk, conn_dst, conn_src,
                   compound_ids, i, run, out1, prior, created, commits, summary>>

\* SELECT * FROM src.spectra_databases WHERE name = ?
spectra_by_name == {r \in srcRows["spectra_databases"] : r[2] = TARGET_DATABASE_NAME}

InsertSpectraByName ==
    Statement("spectra_by_name", "spectra_databases", spectra_by_name, TRUE)

\* SELECT DISTINCT database_id FROM src.compounds
\*   WHERE database_name = ? AND database_id IS NOT NULL
database_ids ==
    {r[3] : r \in {q \in srcRows["compounds"] :
                      q[2] = TARGET_DATABASE_NAME /\ q[3] # NULL}}

\* for (did,) in cur.fetchall(): SELECT * FROM src.spectra_databases WHERE id = ?
spectra_by_id == {r \in srcRows["spectra_databases"] : r[1] \in database_ids}

\* The loop runs no statement when there is no database_id.
InsertSpectraById ==
    /\ pc = "spectra_by_id"
    /\ LET r == IF database_ids = {}
                THEN [rows |-> pending, raised |-> FALSE]
                ELSE insert("spectra_databases", spectra_by_id, TRUE)
       IN  /\ pending' = r.rows
           /\ IF r.raised
              THEN Raise
              ELSE /\ outcome' = outcome
                   /\ pc' = StepAfter("spectra_by_id")
    /\ UNCHANGED <<srcExists, srcCatalog, srcRows, disk, inTxn, conn_dst, conn_src,
                   compound_ids, i, run, out1, prior, created, commits, summary>>

\* SELECT DISTINCT c.* FROM src.common_compound_categories c
\*   INNER JOIN src.compounds comp ON comp.category_id = c.id
\*   WHERE comp.id IN (compound_ids)
\* Variant: no category is copied.
categories_none(ids) == {}
categories_of(ids) ==
    {c \in srcRows["common_compound_categories"] :
        \E comp \in srcRows["compounds"] : comp[4] = c[1] /\ comp[1] \in ids}

InsertCategories ==
    Statement("categories", "common_compound_categories", categories_of(compound_ids), TRUE)

\* INSERT OR IGNORE INTO solar_spectra SELECT * FROM src.solar_spectra
InsertSolar ==
    Statement("solar", "solar_spectra", srcRows["solar_spectra"], TRUE)

\* SELECT * FROM src.compounds WHERE id IN (compound_ids)
\* Variant: the compounds are not filtered.
compounds_all(ids) == srcRows["compounds"]
compounds_in(ids) == {r \in srcRows["compounds"] : r[1] \in ids}

InsertCompounds ==
    Statement("compounds", "compounds", compounds_in(compound_ids), FALSE)

\* SELECT * FROM src.{table} WHERE compound_id IN (compound_ids)
\* Variant: the linked rows are not filtered.
linked_all(table, ids) == srcRows[table]
linked_in(table, ids) == {r \in srcRows[table] : r[2] \in ids}

\* for table in [four linked tables]: INSERT INTO {table} SELECT ...
InsertLinked ==
    /\ pc = "linked"
    /\ LET table == linked_tables[i]
           r == insert(table, linked_in(table, compound_ids), FALSE)
       IN  /\ pending' = r.rows
           /\ IF r.raised
              THEN /\ Raise
                   /\ i' = i
                   /\ inTxn' = inTxn
              ELSE /\ outcome' = outcome
                   /\ inTxn' = TRUE
                   /\ IF i < Len(linked_tables)
                      THEN /\ i' = i + 1
                           /\ pc' = pc
                      ELSE /\ i' = 1
                           /\ pc' = StepAfter("linked")
    /\ UNCHANGED <<srcExists, srcCatalog, srcRows, disk, conn_dst, conn_src,
                   compound_ids, run, out1, prior, created, commits, summary>>

InsertAbsorptionsBackup ==
    Statement("absorptions_backup", "compounds_absorptions_backup",
              linked_in("compounds_absorptions_backup", compound_ids), FALSE)

InsertEmissionsBackup ==
    Statement("emissions_backup", "compounds_emissions_backup",
              linked_in("compounds_emissions_backup", compound_ids), FALSE)

\* conn_dst.commit()
Commit ==
    /\ pc = "commit"
    /\ disk' = [disk EXCEPT !.rows = pending]
    /\ inTxn' = FALSE
    /\ commits' = commits + 1
    /\ pc' = StepAfter("commit")
    /\ UNCHANGED <<srcExists, srcCatalog, srcRows, pending, conn_dst, conn_src,
                   compound_ids, i, outcome, run, out1, prior, created, summary>>

\* conn_dst.execute("DETACH DATABASE src")
Detach ==
    /\ pc = "detach"
    /\ pc' = StepAfter("detach")
    /\ UNCHANGED <<srcExists, srcCatalog, srcRows, disk, pending, inTxn, conn_dst,
                   conn_src, compound_ids, i, outcome, run, out1, prior, created,
                   commits, summary>>

\* SELECT COUNT(*) FROM compounds / compounds_absorptions / compounds_emissions
Summary ==
    /\ pc = "summary"
    /\ summary' = << Cardinality(pending["compounds"]),
                     Cardinality(pending["compounds_absorptions"]),
                     Cardinality(pending["compounds_emissions"]) >>
    /\ outcome' = "ok"
    /\ pc' = StepAfter("summary")
    /\ UNCHANGED <<srcExists, srcCatalog, srcRows, disk, pending, inTxn, conn_dst,
                   conn_src, compound_ids, i, run, out1, prior, created, commits>>

\* finally: conn_dst.close() -- what was not committed is rolled back; then
\* main() is left, by return or by the exception.
Finally ==
    /\ pc = "finally"
    /\ conn_dst' = "closed"
    /\ pending' = disk.rows
    /\ inTxn' = FALSE
    /\ out1' = IF outcome = "ok" /\ ~out1.exists THEN disk ELSE out1
    /\ pc' = "idle"
    /\ UNCHANGED <<srcExists, srcCatalog, srcRows, disk, conn_src, compound_ids, i,
                   outcome, run, prior, created, commits, summary>>

Next == Invoke \/ CheckSource \/ RemoveStale \/ Connect \/ Attach \/ SelectIds
          \/ OpenSrc \/ CopySchema \/ CloseSrc
          \/ InsertSpectraByName \/ InsertSpectraById \/ InsertCategories \/ InsertSolar
          \/ InsertCompounds \/ InsertLinked \/ InsertAbsorptionsBackup
          \/ InsertEmissionsBackup \/ Commit \/ Detach \/ Summary \/ Finally

Spec == Init /\ [][Next]_vars

(* ------------------------------- claims -------------------------------- *)
\* main() has been run and has ended.
Done == pc = "idle" /\ run > 0

\* The ids of the source compounds the extraction is to select.
Wanted == {r[1] : r \in {q \in srcRows["compounds"] : q[2] = "Common Compounds"}}

\* C1: once a run has committed, the ids of the destination's compounds are
\* exactly the ids of the source compounds whose database_name is
\* "Common Compounds".
C1_SelectionCorrect ==
    commits > 0 => {r[1] : r \in disk.rows["compounds"]} = Wanted

C1_Witness ==
    /\ commits > 0
    /\ disk.rows["compounds"] # {}
    /\ \E r \in srcRows["compounds"] : r[1] \notin Wanted

NoOrphans(rows) ==
    \A t \in CompoundKeyed : \A r \in rows[t] :
        \E c \in rows["compounds"] : c[1] = r[2]

\* C2: in every state of the destination, seen by the connection or
\* committed, each row of the six compound-keyed tables has the id of a
\* destination compound as its compound_id, and the compounds copy is
\* complete when a dependent copy runs.
C2_NoOrphans ==
    /\ NoOrphans(pending)
    /\ NoOrphans(disk.rows)
    /\ pc \in {"linked", "absorptions_backup", "emissions_backup"} =>
          {r[1] : r \in pending["compounds"]} = Wanted

C2_Witness ==
    /\ pc = "linked"
    /\ i > 1
    /\ pending[linked_tables[1]] # {}

\* C3 as stated: after the commit every non-null category_id and database_id
\* of a destination compound is the id of a destination row.
C3_Original ==
    commits > 0 =>
        \A r \in disk.rows["compounds"] :
            /\ r[4] # NULL =>
                  \E c \in disk.rows["common_compound_categories"] : c[1] = r[4]
            /\ r[3] # NULL =>
                  \E d \in disk.rows["spectra_databases"] : d[1] = r[3]

\* C3 as amended: after the commit every non-null category_id and
\* database_id of a destination compound that is the id of a row of the
\* source is the id of a destination row.
C3_ReferenceComplete ==
    commits > 0 =>
        \A r \in disk.rows["compounds"] :
            /\ (r[4] # NULL /\ \E c \in srcRows["common_compound_categories"] : c[1] = r[4])
                  => \E c \in disk.rows["common_compound_categories"] : c[1] = r[4]
            /\ (r[3] # NULL /\ \E d \in srcRows["spectra_databases"] : d[1] = r[3])
                  => \E d \in disk.rows["spectra_databases"] : d[1] = r[3]

C3_Witness ==
    /\ commits > 0
    /\ \E r \in disk.rows["compounds"] :
          /\ r[4] # NULL
          /\ \E c \in disk.rows["common_compound_categories"] : c[1] = r[4]

\* C4: once a run has committed, each compound-keyed table of the
\* destination holds exactly the source rows whose compound_id is selected.
C4_DependentsExact ==
    commits > 0 =>
        \A t \in CompoundKeyed :
            disk.rows[t] = {r \in srcRows[t] : r[2] \in Wanted}

C4_Witness ==
    /\ commits > 0
    /\ \E t \in CompoundKeyed : disk.rows[t] # {}

\* C5: when the source file does not exist, main() ends at once without
\* raising and without opening a connection, and the file at the destination
\* path is the one that was there, or none, throughout.
C5_MissingSource ==
    (run > 0 /\ ~srcExists) =>
        /\ disk = prior
        /\ conn_dst = "none"
        /\ conn_src = "none"
        /\ outcome \in {"none", "nosource"}
        /\ Done => outcome = "nosource"

C5_Witness ==
    /\ Done
    /\ ~srcExists
    /\ prior = StaleFile

\* C6: when the source has a compounds table without any "Common Compounds"
\* row, main() ends after the selection without raising, nothing was created
\* or copied, and the destination is an empty file.
C6_EmptySelection ==
    /\ (Done /\ srcExists /\ srcCatalog["compounds"] # "absent" /\ Wanted = {})
          => outcome = "empty"
    /\ (Done /\ outcome = "empty") =>
          /\ disk = EmptyFile
          /\ created = {}
          /\ commits = 0
          /\ pending = NoRows

C6_Witness ==
    /\ Done
    /\ outcome = "empty"
    /\ prior = StaleFile
    /\ srcRows["compounds"] # {}

\* C7: each successful run against the unchanged source leaves the same
\* tables, indexes and rows as the first successful one, whatever file was at
\* the destination path before it, and after a successful run no later run
\* fails.
C7_FreshDestination ==
    /\ (Done /\ outcome = "ok") => disk = out1
    /\ (Done /\ out1.exists) => outcome = "ok"

C7_Witness ==
    /\ Done
    /\ run = 2
    /\ outcome = "ok"
    /\ out1.exists
    /\ prior = out1
    /\ disk.rows["compounds"] # {}

\* C8: when main() has ended after opening a connection, conn_dst and
\* conn_src, if it was opened, are closed.
C8_HandlesReleased ==
    (Done /\ conn_dst # "none") =>
        /\ conn_dst = "closed"
        /\ conn_src # "open"

\* C9: a successful run has committed once, and a run that failed at a
\* schema or data-copy step has left no table, index or row in the
\* destination file.
C9_DeferredCommit ==
    /\ (Done /\ outcome = "ok") => commits = 1
    /\ (Done /\ outcome = "raised") =>
          /\ commits = 0
          /\ disk.tables = {}
          /\ disk.indexes = {}
          /\ disk.rows = NoRows

\* C10: a step that adds rows to a destination table finds the table created
\* by copy_table_schema in this run, and copy_table_schema of a listed table
\* that is not in the source catalog changes nothing in the destination and
\* raises nothing.
C10_SchemaBeforeData ==
    [][ /\ \A t \in Tables :
              (pending'[t] \ pending[t] # {}) => (t \in created /\ t \in disk.tables)
        /\ (pc = "schema" /\ srcCatalog[tables_to_copy[i]] = "absent") =>
              /\ disk' = disk
              /\ pending' = pending
              /\ outcome' = outcome
              /\ pc' # "finally" ]_vars

C10_Witness ==
    /\ pc = "emissions_backup"
    /\ srcCatalog["compounds_emissions_backup"] = "absent"
    /\ "compounds_emissions_backup" \notin disk.tables
    /\ pending["compounds"] # {}
====
